---- MODULE Spec2Model ----
(***************************************************************************)
(* Model of the Linear triage agent (void-agent): the webhook entry point  *)
(* (worker.ts fetch), the two background handlers handleNewIssue and       *)
(* handleComment, the plan generator getTriagePlan (llm, part_000), the    *)
(* knowledge base (kb) and the tracker operations (linear), both in        *)
(* part_001.  Every remote call is an asynchronous boundary: one action    *)
(* of the model is one remote call together with the synchronous code that *)
(* follows it up to the next remote call, so that the handlers of          *)
(* different events interleave exactly at their await points.              *)
(*                                                                         *)
(* Text is a sequence of tokens; the bot marker is the three-token         *)
(* sequence "<!--" "bot" "-->".  An optional (possibly undefined) value is *)
(* a sequence of length 0 (undefined) or 1.                                *)
(***************************************************************************)
EXTENDS Integers, Sequences, FiniteSets, TLC

\* ------------------------------------------------------------------ bounds
\* Number of webhook requests (events) received in one behaviour.
MaxEvents == 2
\* Number of failures (failed model calls, failed tracker calls) in one behaviour.
MaxFaults == 3

\* ------------------------------------------------------- program constants
MAX_RETRIES == 3
RETRY_DELAY_MS == 1000

BOT_MARKER == <<"<!--", "bot", "-->">>

\* ------------------------------------------------------------ option type
None == <<>>
Some(v) == <<v>>
IsSome(o) == Len(o) > 0
Val(o) == o[1]

\* --------------------------------------------------------------- world data
LabelA == "label-id-bug"
LabelB == "label-id-ui"
LabelFake == "label-id-fake"
AwaitingLabel == "label-id-awaiting"
TeamOne == "team-id-1"
TeamUnknown == "team-id-x"

\* The label knowledge base documents the KV store may hold under labels.json.
LabelKbOk == [hasNodes |-> TRUE, nodes |-> {LabelA, LabelB, AwaitingLabel}]
LabelKbMalformed == [hasNodes |-> FALSE, nodes |-> {}]

KvOk == [team |-> Some({TeamOne}), labels |-> Some(LabelKbOk)]

\* The deployments considered: the contents of the KV namespace TEAM_RULES_KV
\* (each key absent or present) and AWAITING_INFO_LABEL_ID, which is optional:
\* the empty string stands for unset.
Configs ==
    { [kv |-> KvOk, awaiting |-> AwaitingLabel],
      [kv |-> KvOk, awaiting |-> ""],
      [kv |-> [KvOk EXCEPT !.labels = Some(LabelKbMalformed)], awaiting |-> ""],
      [kv |-> [KvOk EXCEPT !.team = None], awaiting |-> AwaitingLabel],
      [kv |-> [KvOk EXCEPT !.labels = None], awaiting |-> AwaitingLabel] }

\* Comment bodies a human may write: no marker (only a part of it), or the
\* marker followed by text.
HumanBodies ==
    { <<"text", "<!--", "bot">>,
      <<"<!--", "bot", "-->", "text">> }

\* The HMAC-SHA256 of a request's body under LINEAR_SIGNING_SECRET, as the hex
\* pairs of its digest, and the values the linear-signature header may have:
\* absent, the digest, another digest, text without hex digits, and the digest
\* after characters that are not hex digits.
BodyMac == <<"a1", "b2">>
HexPairs == {"a1", "b2", "b3"}
SignatureHeaders ==
    { None, Some(BodyMac), Some(<<"a1", "b3">>), Some(<<"zz">>),
      Some(<<"zz", "a1", "b2">>) }

VARIABLES env, kv, issue, comments, tasks, faults

vars == <<env, kv, issue, comments, tasks, faults>>

\* ---------------------------------------------------------- pure functions
\* String.prototype.includes: sub occurs in s as a contiguous subsequence.
Includes(s, sub) ==
    \E k \in 0..(Len(s) - Len(sub)) : SubSeq(s, k + 1, k + Len(sub)) = sub

EndsWith(s, sub) ==
    /\ Len(s) >= Len(sub)
    /\ SubSeq(s, Len(s) - Len(sub) + 1, Len(s)) = sub

IsBotComment_EndsWith(body) == EndsWith(body, BOT_MARKER)

\* worker.ts:208  data.body.includes('<!-- bot -->')
IsBotComment(body) == Includes(body, BOT_MARKER)

SeqToSet(s) == {s[k] : k \in DOMAIN s}

NotAwaitingInfo_And(awaitingId, labelIds) ==
    awaitingId = "" /\ ~(awaitingId \in SeqToSet(labelIds))

NotAwaitingInfo_Always(awaitingId, labelIds) == TRUE

\* worker.ts:217  !env.AWAITING_INFO_LABEL_ID || !issue.labelIds.includes(...)
NotAwaitingInfo(awaitingId, labelIds) ==
    awaitingId = "" \/ ~(awaitingId \in SeqToSet(labelIds))

\* worker.ts:173 and 239  plan.needsClarification && plan.clarificationComment
\* (an undefined or empty clarificationComment is falsy)
AsksClarification(plan) ==
    /\ plan.needsClarification
    /\ IsSome(plan.clarificationComment)
    /\ Val(plan.clarificationComment) # <<>>

\* worker.ts:69-75
priorityMap ==
    [p \in {"No priority", "Urgent", "High", "Medium", "Low"} |->
        CASE p = "No priority" -> 0
          [] p = "Urgent" -> 1
          [] p = "High" -> 2
          [] p = "Medium" -> 3
          [] p = "Low" -> 4]

MapPriority_ZeroDefault(priority) ==
    Some(IF IsSome(priority) THEN priorityMap[Val(priority)] ELSE 0)

\* worker.ts:187 and 260  priority ? priorityMap[priority] : undefined
MapPriority(priority) ==
    IF IsSome(priority) THEN Some(priorityMap[Val(priority)]) ELSE None

FilterValid_Unchecked(doc, labelIds) ==
    IF ~doc.hasNodes THEN labelIds
    ELSE SelectSeq(labelIds, LAMBDA id : id \in doc.nodes)

\* part_001:65-70  validateLabelIds, after the label document was read
FilterValid(doc, labelIds) ==
    IF ~doc.hasNodes THEN <<>>
    ELSE SelectSeq(labelIds, LAMBDA id : id \in doc.nodes)

\* worker.ts:181 and 247  labelIds || []
OrEmpty(o) == IF IsSome(o) THEN Val(o) ELSE <<>>

\* worker.ts:250-252
FinalLabelIds(issueLabelIds, awaitingId, validLabelIds) ==
    SelectSeq(issueLabelIds, LAMBDA id : id # awaitingId) \o validLabelIds

RetryDelay_FromZero(i) == RETRY_DELAY_MS * i

\* part_000:85  RETRY_DELAY_MS * (i + 1)
RetryDelay(i) == RETRY_DELAY_MS * (i + 1)


\* ------------------------------------------------------------- triage plan
\* part_000:11-24  TriagePlanSchema; every field but needsClarification optional.
BasePlan ==
    [ needsClarification |-> FALSE, clarificationComment |-> None,
      rewrite |-> None, priority |-> None, teamId |-> None, labelIds |-> None,
      estimate |-> None, assigneeId |-> None, subtasks |-> None ]

ClarifyPlan(body) ==
    [BasePlan EXCEPT !.needsClarification = TRUE,
                     !.clarificationComment = Some(body)]

FullPlan ==
    [BasePlan EXCEPT
        !.rewrite = Some([title |-> Some("New title"), description |-> Some("New description")]),
        !.priority = Some("High"), !.teamId = Some(TeamOne),
        !.labelIds = Some(<<LabelA, LabelFake>>), !.estimate = Some(3),
        !.assigneeId = Some("user-2"), !.subtasks = Some(<<"sub-1", "sub-2">>)]

\* A plan whose label list names the awaiting-info label itself, a label twice
\* and nothing else; its team is not in the team knowledge base.
OddPlan ==
    [BasePlan EXCEPT
        !.labelIds = Some(<<AwaitingLabel, LabelB, LabelB>>),
        !.teamId = Some(TeamUnknown), !.subtasks = Some(<<>>),
        !.clarificationComment = Some(<<"note">>)]

\* The plans the model may return: the schema admits every one of them.
Plans ==
    { \* clarification requests: marker at the end (with side fields), no marker
      [ClarifyPlan(<<"question">> \o BOT_MARKER) EXCEPT
          !.teamId = Some(TeamOne), !.labelIds = Some(<<LabelA>>),
          !.estimate = Some(5), !.priority = Some("Urgent")],
      ClarifyPlan(<<"question">>),
      \* needsClarification with an absent or an empty comment
      [BasePlan EXCEPT !.needsClarification = TRUE],
      [ClarifyPlan(<<>>) EXCEPT !.teamId = Some(TeamOne),
                                !.labelIds = Some(<<LabelB>>), !.estimate = Some(2)],
      \* complete plans
      FullPlan,
      OddPlan }

\* A JSON value of the field needsClarification: missing, a boolean, or a string.
JsonObjects ==
    { [needsClarification |-> Some([t |-> "boolean", b |-> p.needsClarification]),
       rest |-> p] : p \in Plans }
    \cup
    { [needsClarification |-> None, rest |-> BasePlan],
      [needsClarification |-> Some([t |-> "string", b |-> TRUE]), rest |-> FullPlan] }

\* What one chat-completion call can produce (part_000:56-78).
LlmOutputs ==
    { [kind |-> "error", json |-> None],      \* the API call throws
      [kind |-> "empty", json |-> None],      \* no content in the first choice
      [kind |-> "text",  json |-> None] }     \* content that JSON.parse rejects
    \cup { [kind |-> "json", json |-> Some(o)] : o \in JsonObjects }

\* part_000:78  TriagePlanSchema.parse: the required boolean must be there.
SchemaOk(obj) ==
    /\ IsSome(obj.needsClarification)
    /\ Val(obj.needsClarification).t = "boolean"

SchemaParse(obj) ==
    [obj.rest EXCEPT !.needsClarification = Val(obj.needsClarification).b]

\* part_000:72-78  the attempt succeeds iff content is non-empty JSON that conforms
AttemptOk(out) == out.kind = "json" /\ SchemaOk(Val(out.json))

\* ----------------------------------------------------------------- tracker
\* part_001:95-103  IssueUpdatePayload: every field optional
NoUpdate ==
    [ title |-> None, description |-> None, teamId |-> None, labelIds |-> None,
      estimate |-> None, priority |-> None, assigneeId |-> None ]

NoIssue ==
    [ exists |-> FALSE, title |-> "", description |-> None, labelIds |-> <<>>,
      teamId |-> "", estimate |-> None, priority |-> None, assigneeId |-> None,
      subtasks |-> <<>>, subscribers |-> {}, reactions |-> 0 ]

\* The issues a human may create: with or without labels, description, creator.
IssueInputs ==
    { [labelIds |-> <<>>, description |-> Some("vague"), creator |-> Some("user-1")],
      [labelIds |-> <<LabelB>>, description |-> None, creator |-> None] }

Pick(new, old) == IF IsSome(new) THEN Val(new) ELSE old
PickOpt(new, old) == IF IsSome(new) THEN new ELSE old

\* part_001:182-216  issueUpdate: the fields given replace the issue's, the
\* undefined ones are not sent and stay as they are.
ApplyUpdate(iss, input) ==
    [iss EXCEPT
        !.title = Pick(input.title, @),
        !.description = PickOpt(input.description, @),
        !.teamId = Pick(input.teamId, @),
        !.labelIds = Pick(input.labelIds, @),
        !.estimate = PickOpt(input.estimate, @),
        !.priority = PickOpt(input.priority, @),
        !.assigneeId = PickOpt(input.assigneeId, @)]

\* worker.ts:176
AwaitingUpdate(awaitingId) == [NoUpdate EXCEPT !.labelIds = Some(<<awaitingId>>)]

NewIssueUpdate_RawLabels(plan, validLabelIds) ==
    [NoUpdate EXCEPT
        !.teamId = plan.teamId,
        !.labelIds = Some(OrEmpty(plan.labelIds)),
        !.estimate = plan.estimate,
        !.priority = MapPriority(plan.priority),
        !.assigneeId = plan.assigneeId]

\* worker.ts:183-189
NewIssueUpdate(plan, validLabelIds) ==
    [NoUpdate EXCEPT
        !.teamId = plan.teamId,
        !.labelIds = Some(validLabelIds),
        !.estimate = plan.estimate,
        !.priority = MapPriority(plan.priority),
        !.assigneeId = plan.assigneeId]

\* worker.ts:254-262  rewrite?.title, rewrite?.description
RewriteField(plan, f) ==
    IF IsSome(plan.rewrite) THEN Val(plan.rewrite)[f] ELSE None

RetriageUpdate(plan, issueLabelIds, awaitingId, validLabelIds) ==
    [NoUpdate EXCEPT
        !.title = RewriteField(plan, "title"),
        !.description = RewriteField(plan, "description"),
        !.teamId = plan.teamId,
        !.labelIds = Some(FinalLabelIds(issueLabelIds, awaitingId, validLabelIds)),
        !.estimate = plan.estimate,
        !.priority = MapPriority(plan.priority),
        !.assigneeId = plan.assigneeId]

\* ------------------------------------------------------------------- tasks
\* One record per webhook request: the request, the position of its handler,
\* the handler's locals, and the log of the calls it made.
NoSnapshot == [title |-> "", description |-> None, labelIds |-> <<>>]

NewTask(type, action, signed, body, origin, creator) ==
    [ type |-> type, action |-> action, signed |-> signed, body |-> body,
      header |-> IF signed THEN Some(BodyMac) ELSE None,
      origin |-> origin, creator |-> creator,
      pc |-> "received", status |-> 0, err |-> "",
      i |-> 0, fetched |-> FALSE, issue |-> NoSnapshot,
      hasPlan |-> FALSE, plan |-> BasePlan, validLabelIds |-> <<>>,
      calls |-> <<>> ]

Entry(op, ok) ==
    [op |-> op, ok |-> ok, key |-> "", body |-> <<>>, input |-> NoUpdate, ms |-> 0]

Logged(r, e) == [r EXCEPT !.calls = Append(@, e)]

Abort_Continue(r, err) == [r EXCEPT !.err = err]

Abort_Retry(r, err) == [r EXCEPT !.pc = "received", !.err = err]

\* an uncaught throw ends the handler's promise (worker.ts:287-289 has no catch)
Abort(r, err) == [r EXCEPT !.pc = "aborted", !.err = err]

Goto(r, pc) == [r EXCEPT !.pc = pc]

Room == Len(tasks) < MaxEvents

TypeOK ==
    /\ [kv |-> kv, awaiting |-> env.AWAITING_INFO_LABEL_ID] \in Configs
    /\ Len(tasks) <= MaxEvents
    /\ faults \in 0..MaxFaults

Init ==
    /\ \E c \in Configs :
        /\ env = [AWAITING_INFO_LABEL_ID |-> c.awaiting]
        /\ kv = c.kv
    /\ issue = NoIssue
    /\ comments = <<>>
    /\ tasks = <<>>
    /\ faults = 0


SetTask(t, r) == tasks' = [tasks EXCEPT ![t] = r]

\* A remote call succeeds or fails; failures are counted up to MaxFaults.
Outcomes == IF faults < MaxFaults THEN BOOLEAN ELSE {TRUE}

Fault(ok) == faults' = IF ok THEN faults ELSE faults + 1

\* ------------------------------------------------------------- environment
\* A human creates the issue; the tracker sends the Issue/create webhook.
HumanCreatesIssue ==
    /\ ~issue.exists
    /\ Room
    /\ \E inp \in IssueInputs :
        /\ issue' = [NoIssue EXCEPT !.exists = TRUE, !.title = "Old title",
                                    !.description = inp.description,
                                    !.labelIds = inp.labelIds, !.teamId = "team-id-0"]
        /\ tasks' = Append(tasks,
              NewTask("Issue", "create", TRUE, <<>>, "human", inp.creator))
    /\ UNCHANGED <<env, kv, comments, faults>>

\* A human comments on the issue; the tracker sends the Comment/create webhook.
HumanComments ==
    /\ issue.exists
    /\ Room
    /\ \E body \in HumanBodies :
        /\ comments' = Append(comments, [body |-> body, author |-> "human"])
        /\ tasks' = Append(tasks,
              NewTask("Comment", "create", TRUE, body, "human", None))
    /\ UNCHANGED <<env, kv, issue, faults>>

\* Any other request: an event that is not a creation, or a bad signature.
OtherRequests ==
    { [type |-> "Comment", action |-> "remove", signed |-> TRUE],
      [type |-> "Issue", action |-> "create", signed |-> FALSE] }

OtherRequest ==
    /\ issue.exists
    /\ Room
    /\ \E q \in OtherRequests :
        tasks' = Append(tasks,
              NewTask(q.type, q.action, q.signed, <<"text">>, "human", None))
    /\ UNCHANGED <<env, kv, issue, comments, faults>>

\* ------------------------------------------------------------ worker.fetch
Route_NoKb(type, action) ==
    IF type = "Issue" /\ action = "create" THEN "llm"
    ELSE IF type = "Comment" /\ action = "create" THEN "getIssue"
    ELSE "done"

Route_AnyIssueAction(type, action) ==
    IF type = "Issue" THEN "teamKb"
    ELSE IF type = "Comment" /\ action = "create" THEN "getIssue"
    ELSE "done"

\* worker.ts:286-290  which handler, if any, a verified payload starts
Route(type, action) ==
    IF type = "Issue" /\ action = "create" THEN "teamKb"
    ELSE IF type = "Comment" /\ action = "create" THEN "getIssue"
    ELSE "done"

\* worker.ts:136  signatureHeader.match(/[\da-f]{2}/gi): the hex pairs of the
\* header in order, whatever stands between them
MatchHexPairs(h) == SelectSeq(h, LAMBDA c : c \in HexPairs)

VerifySignature_MissingOk(header) ==
    ~IsSome(header) \/ MatchHexPairs(Val(header)) = BodyMac

\* worker.ts:115-149  no header: false; no hex pair in the header: match returns
\* null, the map call throws, the catch returns false; else the HMAC comparison
VerifySignature(header) ==
    IF ~IsSome(header) THEN FALSE
    ELSE IF MatchHexPairs(Val(header)) = <<>> THEN FALSE
    ELSE MatchHexPairs(Val(header)) = BodyMac

\* worker.ts:280 and 293  the body of the response, by its status
ResponseBody(status) ==
    IF status = 401 THEN [kind |-> "text", text |-> "Invalid signature"]
    ELSE [kind |-> "text", text |-> "Webhook acknowledged"]

\* worker.ts:276-294
Fetch(t) ==
    /\ tasks[t].pc = "received"
    /\ IF ~VerifySignature(tasks[t].header)
       THEN SetTask(t, [tasks[t] EXCEPT !.pc = "done", !.status = 401])
       ELSE SetTask(t, [tasks[t] EXCEPT
                !.pc = Route(tasks[t].type, tasks[t].action), !.status = 200])
    /\ UNCHANGED <<env, kv, issue, comments, faults>>

\* ----------------------------------------------------------- handleComment
\* part_001:149-152  what getIssue returns of the issue
Snapshot(iss) ==
    [title |-> iss.title, description |-> iss.description, labelIds |-> iss.labelIds]

FetchedIssue_Discard(r, ok, iss, awaitingId) ==
    LET f == Logged(r, Entry("getIssue", ok)) IN
    IF ~ok THEN Abort(f, "FetchFailed")
    ELSE Goto([f EXCEPT !.fetched = TRUE, !.issue = Snapshot(iss)], "done")

FetchedIssue_NoGuard(r, ok, iss, awaitingId) ==
    LET f == Logged(r, Entry("getIssue", ok)) IN
    IF ~ok THEN Abort(f, "FetchFailed")
    ELSE Goto([f EXCEPT !.fetched = TRUE, !.issue = Snapshot(iss)], "teamKb")

\* worker.ts:213-220  the issue fetch and guard 2
FetchedIssue(r, ok, iss, awaitingId) ==
    LET f == Logged(r, Entry("getIssue", ok)) IN
    IF ~ok THEN Abort(f, "FetchFailed")
    ELSE Goto([f EXCEPT !.fetched = TRUE, !.issue = Snapshot(iss)],
              IF NotAwaitingInfo(awaitingId, iss.labelIds) THEN "done" ELSE "teamKb")

\* worker.ts:205-220  guard 1, then the issue fetch and guard 2
GetIssue(t) ==
    /\ tasks[t].pc = "getIssue"
    /\ IF IsBotComment(tasks[t].body)
       THEN /\ SetTask(t, Goto(tasks[t], "done"))
            /\ UNCHANGED faults
       ELSE \E ok \in Outcomes :
            /\ Fault(ok)
            /\ SetTask(t, FetchedIssue(tasks[t], ok, issue, env.AWAITING_INFO_LABEL_ID))
    /\ UNCHANGED <<env, kv, issue, comments>>

GetTeamKb_Continue(t) ==
    /\ tasks[t].pc = "teamKb"
    /\ SetTask(t, Goto(Logged(tasks[t],
            [Entry("kvGet", IsSome(kv.team)) EXCEPT !.key = "team_rules.json"]),
            "labelKb"))
    /\ UNCHANGED <<env, kv, issue, comments, faults>>

\* part_001:36-42  getTeamKnowledgeBase (worker.ts:159 and 223)
GetTeamKb(t) ==
    /\ tasks[t].pc = "teamKb"
    /\ LET r == Logged(tasks[t],
                  [Entry("kvGet", IsSome(kv.team)) EXCEPT !.key = "team_rules.json"])
       IN IF IsSome(kv.team) THEN SetTask(t, Goto(r, "labelKb"))
          ELSE SetTask(t, Abort(r, "ConfigurationMissing"))
    /\ UNCHANGED <<env, kv, issue, comments, faults>>

\* part_001:49-55  getLabelKnowledgeBase (worker.ts:162 and 225)
GetLabelKb(t) ==
    /\ tasks[t].pc = "labelKb"
    /\ LET r == Logged(tasks[t],
                  [Entry("kvGet", IsSome(kv.labels)) EXCEPT !.key = "labels.json"])
       IN IF IsSome(kv.labels)
          THEN SetTask(t, Goto(r, IF tasks[t].type = "Comment"
                                  THEN "getComments" ELSE "llm"))
          ELSE SetTask(t, Abort(r, "ConfigurationMissing"))
    /\ UNCHANGED <<env, kv, issue, comments, faults>>

\* part_001:155-174  getComments (worker.ts:228)
GetComments(t) ==
    /\ tasks[t].pc = "getComments"
    /\ \E ok \in Outcomes :
        /\ Fault(ok)
        /\ LET r == Logged(tasks[t], Entry("getComments", ok)) IN
           IF ok THEN SetTask(t, Goto(r, "llm"))
           ELSE SetTask(t, Abort(r, "FetchFailed"))
    /\ UNCHANGED <<env, kv, issue, comments>>

\* ----------------------------------------------------------- getTriagePlan
FailedAttempt_Swallow(r) ==
    LET f == Logged(r, Entry("llm", FALSE)) IN
    IF r.i = MAX_RETRIES - 1
    THEN [f EXCEPT !.hasPlan = TRUE, !.pc = "validate"]
    ELSE [Logged(f, [Entry("sleep", TRUE) EXCEPT !.ms = RetryDelay(r.i)])
            EXCEPT !.i = r.i + 1]

\* part_000:80-90  the catch block: throw on the last attempt, else wait and loop;
\* leaving the loop without a plan throws as well.
FailedAttempt(r) ==
    LET f == Logged(r, Entry("llm", FALSE)) IN
    IF r.i = MAX_RETRIES - 1
    THEN Abort(f, "PlanGenerationFailed")
    ELSE LET w == [Logged(f, [Entry("sleep", TRUE) EXCEPT !.ms = RetryDelay(r.i)])
                      EXCEPT !.i = r.i + 1]
         IN IF w.i < MAX_RETRIES THEN w ELSE Abort(w, "PlanGenerationFailed")

\* part_000:72-78 and worker.ts:173, 239  the plan is returned to the handler,
\* which takes its branch
GotPlan(r, plan) ==
    Goto([Logged(r, Entry("llm", TRUE)) EXCEPT !.hasPlan = TRUE, !.plan = plan],
         IF AsksClarification(plan) THEN "comment" ELSE "validate")

\* part_000:54-87  one iteration of the retry loop
LlmAttempt(t) ==
    /\ tasks[t].pc = "llm"
    /\ tasks[t].i < MAX_RETRIES
    /\ \E out \in LlmOutputs :
        /\ AttemptOk(out) \/ faults < MaxFaults
        /\ Fault(AttemptOk(out))
        /\ IF AttemptOk(out)
           THEN SetTask(t, GotPlan(tasks[t], SchemaParse(Val(out.json))))
           ELSE SetTask(t, FailedAttempt(tasks[t]))
    /\ UNCHANGED <<env, kv, issue, comments>>

\* ---------------------------------------------------- clarification branch
AfterComment_NoLabel(type, awaitingId) == "done"

AfterComment_FallThrough(type, awaitingId) == "validate"

\* worker.ts:175  after the comment of handleNewIssue; worker.ts:242 ends there
AfterComment(type, awaitingId) ==
    IF type = "Issue" /\ awaitingId # "" THEN "addAwaiting" ELSE "done"

\* part_001:244-258  createComment (worker.ts:174 and 242); the tracker then
\* sends the Comment/create webhook of the new comment.
CreateComment(t) ==
    /\ tasks[t].pc = "comment"
    /\ LET body == Val(tasks[t].plan.clarificationComment) IN
       \E ok \in Outcomes :
        /\ Fault(ok)
        /\ LET r == Logged(tasks[t],
                       [Entry("createComment", ok) EXCEPT !.body = body]) IN
           IF ~ok
           THEN /\ SetTask(t, Abort(r, "MutationFailed"))
                /\ UNCHANGED comments
           ELSE /\ comments' = Append(comments, [body |-> body, author |-> "bot"])
                /\ LET done == [tasks EXCEPT ![t] =
                           Goto(r, AfterComment(r.type, env.AWAITING_INFO_LABEL_ID))]
                   IN tasks' = IF Room
                               THEN Append(done, NewTask("Comment", "create", TRUE,
                                                         body, "bot", None))
                               ELSE done
    /\ UNCHANGED <<env, kv, issue>>

\* worker.ts:175-177
AddAwaitingLabel(t) ==
    /\ tasks[t].pc = "addAwaiting"
    /\ LET input == AwaitingUpdate(env.AWAITING_INFO_LABEL_ID) IN
       \E ok \in Outcomes :
        /\ Fault(ok)
        /\ LET r == Logged(tasks[t],
                       [Entry("updateIssue", ok) EXCEPT !.input = input]) IN
           IF ok
           THEN /\ issue' = ApplyUpdate(issue, input)
                /\ SetTask(t, Goto(r, "done"))
           ELSE /\ UNCHANGED issue
                /\ SetTask(t, Abort(r, "MutationFailed"))
    /\ UNCHANGED <<env, kv, comments>>

\* ------------------------------------------------------- completion branch
\* part_001:63-71  validateLabelIds (worker.ts:181 and 247)
ValidateLabels(t) ==
    /\ tasks[t].pc = "validate"
    /\ LET r == Logged(tasks[t],
                  [Entry("kvGet", IsSome(kv.labels)) EXCEPT !.key = "labels.json"])
       IN IF IsSome(kv.labels)
          THEN SetTask(t, [r EXCEPT !.pc = "update",
                   !.validLabelIds =
                       FilterValid(Val(kv.labels), OrEmpty(r.plan.labelIds))])
          ELSE SetTask(t, Abort(r, "ConfigurationMissing"))
    /\ UNCHANGED <<env, kv, issue, comments, faults>>

\* worker.ts:183-189 (handleNewIssue) and 250-262 (handleComment)
UpdateInput(r, awaitingId) ==
    IF r.type = "Issue"
    THEN NewIssueUpdate(r.plan, r.validLabelIds)
    ELSE RetriageUpdate(r.plan, r.issue.labelIds, awaitingId, r.validLabelIds)

AfterSubtasks_NoSubscribe(r) == "react"

\* worker.ts:193  and worker.ts:264-269 (no subscription on re-triage)
AfterSubtasks(r) ==
    IF r.type = "Issue" /\ IsSome(r.creator) THEN "subscribe" ELSE "react"

\* worker.ts:190 and 264  subtasks && subtasks.length > 0
AfterUpdate(r) ==
    IF IsSome(r.plan.subtasks) /\ Len(Val(r.plan.subtasks)) > 0
    THEN "subtasks" ELSE AfterSubtasks(r)

\* part_001:182-216  updateIssue (worker.ts:183 and 254)
UpdateIssue(t) ==
    /\ tasks[t].pc = "update"
    /\ LET input == UpdateInput(tasks[t], env.AWAITING_INFO_LABEL_ID) IN
       \E ok \in Outcomes :
        /\ Fault(ok)
        /\ LET r == Logged(tasks[t],
                       [Entry("updateIssue", ok) EXCEPT !.input = input]) IN
           IF ok
           THEN /\ issue' = ApplyUpdate(issue, input)
                /\ SetTask(t, Goto(r, AfterUpdate(r)))
           ELSE /\ UNCHANGED issue
                /\ SetTask(t, Abort(r, "MutationFailed"))
    /\ UNCHANGED <<env, kv, comments>>

RECURSIVE LogSubtasks_FailFast(_, _, _, _)
LogSubtasks_FailFast(r, titles, okSet, k) ==
    IF k > Len(titles) \/ (k > 1 /\ (k - 1) \notin okSet) THEN r
    ELSE LogSubtasks_FailFast(
            Logged(r, [Entry("issueCreate", k \in okSet) EXCEPT !.body = <<titles[k]>>]),
            titles, okSet, k + 1)

RECURSIVE LogSubtasks(_, _, _, _)
\* part_001:227-241  one issueCreate call per title, each settled on its own
LogSubtasks(r, titles, okSet, k) ==
    IF k > Len(titles) THEN r
    ELSE LogSubtasks(
            Logged(r, [Entry("issueCreate", k \in okSet) EXCEPT !.body = <<titles[k]>>]),
            titles, okSet, k + 1)

RECURSIVE Created(_, _, _)
\* part_001:233-241  the items that were created
Created(titles, okSet, k) ==
    IF k > Len(titles) THEN <<>>
    ELSE (IF k \in okSet THEN <<titles[k]>> ELSE <<>>) \o Created(titles, okSet, k + 1)

\* part_001:218-242  createMultipleSubtasks (worker.ts:191 and 266)
CreateSubtasks(t) ==
    /\ tasks[t].pc = "subtasks"
    /\ LET titles == Val(tasks[t].plan.subtasks) IN
       \E okSet \in SUBSET (1..Len(titles)) :
        /\ faults + (Len(titles) - Cardinality(okSet)) <= MaxFaults
        /\ faults' = faults + (Len(titles) - Cardinality(okSet))
        /\ issue' = [issue EXCEPT !.subtasks = @ \o Created(titles, okSet, 1)]
        /\ SetTask(t, Goto(LogSubtasks(tasks[t], titles, okSet, 1),
                           AfterSubtasks(tasks[t])))
    /\ UNCHANGED <<env, kv, comments>>

\* part_001:260-274  subscribeToIssue (worker.ts:193-195)
Subscribe(t) ==
    /\ tasks[t].pc = "subscribe"
    /\ \E ok \in Outcomes :
        /\ Fault(ok)
        /\ LET r == Logged(tasks[t], Entry("subscribe", ok)) IN
           IF ok
           THEN /\ issue' = [issue EXCEPT !.subscribers = @ \cup {Val(r.creator)}]
                /\ SetTask(t, Goto(r, "react"))
           ELSE /\ UNCHANGED issue
                /\ SetTask(t, Abort(r, "MutationFailed"))
    /\ UNCHANGED <<env, kv, comments>>

\* part_001:276-290  addReaction (worker.ts:196 and 269)
AddReaction(t) ==
    /\ tasks[t].pc = "react"
    /\ \E ok \in Outcomes :
        /\ Fault(ok)
        /\ LET r == Logged(tasks[t], Entry("reaction", ok)) IN
           IF ok
           THEN /\ issue' = [issue EXCEPT !.reactions = @ + 1]
                /\ SetTask(t, Goto(r, "done"))
           ELSE /\ UNCHANGED issue
                /\ SetTask(t, Abort(r, "MutationFailed"))
    /\ UNCHANGED <<env, kv, comments>>

Next ==
    \/ HumanCreatesIssue
    \/ HumanComments
    \/ OtherRequest
    \/ \E t \in DOMAIN tasks : Fetch(t)
    \/ \E t \in DOMAIN tasks : GetIssue(t)
    \/ \E t \in DOMAIN tasks : GetTeamKb(t)
    \/ \E t \in DOMAIN tasks : GetLabelKb(t)
    \/ \E t \in DOMAIN tasks : GetComments(t)
    \/ \E t \in DOMAIN tasks : LlmAttempt(t)
    \/ \E t \in DOMAIN tasks : CreateComment(t)
    \/ \E t \in DOMAIN tasks : AddAwaitingLabel(t)
    \/ \E t \in DOMAIN tasks : ValidateLabels(t)
    \/ \E t \in DOMAIN tasks : UpdateIssue(t)
    \/ \E t \in DOMAIN tasks : CreateSubtasks(t)
    \/ \E t \in DOMAIN tasks : Subscribe(t)
    \/ \E t \in DOMAIN tasks : AddReaction(t)

Spec == Init /\ [][Next]_vars


\* ================================================================== claims
Tasks == DOMAIN tasks

\* The events handleComment is started for.
IsCommentEvent(r) == r.type = "Comment" /\ r.action = "create" /\ r.signed

\* The events handleNewIssue is started for.
IsIssueEvent(r) == r.type = "Issue" /\ r.action = "create" /\ r.signed

MutationOps == {"createComment", "updateIssue", "issueCreate", "subscribe", "reaction"}

CountOp(log, op) == Len(SelectSeq(log, LAMBDA e : e.op = op))

Awaiting == env.AWAITING_INFO_LABEL_ID

NoDuplicates(s) == \A j, k \in DOMAIN s : s[j] = s[k] => j = k

\* ---------------------------------------------------------------------- C1
\* C1: a comment-created event whose body contains the bot marker anywhere
\* makes handleComment perform no remote call at all (its call log stays empty).
C1_LoopPrevention ==
    \A t \in Tasks :
        (tasks[t].type = "Comment" /\ Includes(tasks[t].body, BOT_MARKER))
            => tasks[t].calls = <<>>

\* A verified comment event with the marker in front of other text was handled.
C1_Witness ==
    \E t \in Tasks :
        /\ IsCommentEvent(tasks[t])
        /\ Includes(tasks[t].body, BOT_MARKER)
        /\ ~EndsWith(tasks[t].body, BOT_MARKER)
        /\ tasks[t].pc = "done"
        /\ tasks[t].status = 200

\* ---------------------------------------------------------------------- C2
\* C2: for a plan with needsClarification = true the handler issues exactly one
\* comment creation, no issue update other than the label addition of the
\* awaiting-info marker, and that one exactly once on the issue-created path
\* when the marker is configured; also when clarificationComment is absent or
\* empty.
C2_ClarificationNoSideFields ==
    \A t \in Tasks :
        (tasks[t].hasPlan /\ tasks[t].plan.needsClarification) =>
            /\ \A k \in DOMAIN tasks[t].calls :
                  tasks[t].calls[k].op = "updateIssue" =>
                      /\ IsIssueEvent(tasks[t])
                      /\ tasks[t].calls[k].input = AwaitingUpdate(Awaiting)
            /\ tasks[t].pc = "done" =>
                  /\ CountOp(tasks[t].calls, "createComment") = 1
                  /\ CountOp(tasks[t].calls, "updateIssue") =
                        IF IsIssueEvent(tasks[t]) /\ Awaiting # "" THEN 1 ELSE 0

\* ---------------------------------------------------------------------- C3
\* C3: every comment body posted through createComment contains the bot marker.
C3_PostedCommentsCarryMarker ==
    \A t \in Tasks : \A k \in DOMAIN tasks[t].calls :
        tasks[t].calls[k].op = "createComment"
            => Includes(tasks[t].calls[k].body, BOT_MARKER)

\* ---------------------------------------------------------------------- C4
\* C4: a comment-created event caused by a comment the system itself posted
\* never leads to a model call or to a tracker mutation.
C4_NoReactionToOwnOutput ==
    \A t \in Tasks :
        tasks[t].origin = "bot" =>
            \A k \in DOMAIN tasks[t].calls :
                tasks[t].calls[k].op \notin (MutationOps \cup {"llm"})

\* ---------------------------------------------------------------------- C5
\* The case of the relevance guard: a comment event when no marker is
\* configured, or whose fetched issue lacks the marker.
C5_Irrelevant(r) ==
    /\ IsCommentEvent(r)
    /\ \/ Awaiting = ""
       \/ r.fetched /\ ~(Awaiting \in SeqToSet(r.issue.labelIds))

\* C5 (as stated): for a comment event on an issue lacking the awaiting-info
\* marker, or when no marker is configured, handleComment performs zero remote
\* calls.
C5_RelevanceGuardZeroCalls ==
    \A t \in Tasks : C5_Irrelevant(tasks[t]) => tasks[t].calls = <<>>

\* C5 (amended): in that case handleComment performs no remote call other than
\* the one issue fetch (getIssue), which it performs exactly once unless guard 1
\* discarded the comment.
C5_RelevanceGuardOnlyFetch ==
    \A t \in Tasks :
        C5_Irrelevant(tasks[t]) =>
            /\ Len(tasks[t].calls) <= 1
            /\ \A k \in DOMAIN tasks[t].calls : tasks[t].calls[k].op = "getIssue"
            /\ (tasks[t].pc \in {"done", "aborted"}
                    /\ ~Includes(tasks[t].body, BOT_MARKER))
                  => Len(tasks[t].calls) = 1

\* A marker is configured, the fetched issue lacks it, the comment is discarded.
C5_Witness ==
    \E t \in Tasks :
        /\ IsCommentEvent(tasks[t])
        /\ Awaiting # ""
        /\ tasks[t].fetched
        /\ ~(Awaiting \in SeqToSet(tasks[t].issue.labelIds))
        /\ tasks[t].pc = "done"
        /\ Len(tasks[t].calls) = 1

\* ---------------------------------------------------------------------- C6
\* C6: the step of handleComment that fetches an issue without the awaiting-info
\* marker (or with no marker configured) ends the handler: the event has caused
\* no KB read, no model call and no tracker mutation, and the issue (title,
\* description, labels) and its comments are left as they were.
C6_IrrelevantCommentDiscarded ==
    [][ \A t \in Tasks :
          ( /\ tasks[t].pc = "getIssue"
            /\ tasks'[t].fetched
            /\ \/ Awaiting = ""
               \/ ~(Awaiting \in SeqToSet(tasks'[t].issue.labelIds)) )
          => /\ tasks'[t].pc = "done"
             /\ issue' = issue
             /\ comments' = comments
             /\ \A k \in DOMAIN tasks'[t].calls :
                   tasks'[t].calls[k].op \notin
                       (MutationOps \cup {"kvGet", "llm", "getComments"}) ]_vars

\* No marker is configured; a human comment without the bot marker was fetched
\* and discarded.
C6_Witness ==
    \E t \in Tasks :
        /\ IsCommentEvent(tasks[t])
        /\ Awaiting = ""
        /\ tasks[t].fetched
        /\ tasks[t].pc = "done"
        /\ issue.exists

\* ---------------------------------------------------------------------- C7
FailedModelCalls(r) == Len(SelectSeq(r.calls, LAMBDA e : e.op = "llm" /\ ~e.ok))

\* C7: when all MAX_RETRIES attempts of getTriagePlan fail, the handler ends
\* with the PlanGenerationFailed error, without a plan, and the event issues no
\* tracker mutation.
C7_RetryExhaustion ==
    \A t \in Tasks :
        FailedModelCalls(tasks[t]) = MAX_RETRIES =>
            /\ tasks[t].pc = "aborted"
            /\ tasks[t].err = "PlanGenerationFailed"
            /\ ~tasks[t].hasPlan
            /\ \A k \in DOMAIN tasks[t].calls :
                  tasks[t].calls[k].op \notin MutationOps

\* An event whose three model calls all failed.
C7_Witness ==
    \E t \in Tasks :
        /\ FailedModelCalls(tasks[t]) = MAX_RETRIES
        /\ tasks[t].pc = "aborted"

\* ---------------------------------------------------------------------- C8
\* The number of the attempt that call k of the log is.
AttemptNo(log, k) == CountOp(SubSeq(log, 1, k), "llm")

\* C8: getTriagePlan makes at most 3 model calls; a successful call is the last
\* one; a failed attempt k < 3 is followed by a wait of k * 1000 ms and then by
\* another attempt; a failed attempt 3 ends the handler with the error and no
\* wait; while the loop runs another attempt is always possible.
C8_RetryPolicy ==
    \A t \in Tasks :
        LET log == tasks[t].calls IN
        /\ CountOp(log, "llm") <= 3
        /\ tasks[t].pc = "llm" => tasks[t].i < 3 /\ ~tasks[t].hasPlan
        /\ \A k \in DOMAIN log :
              log[k].op = "llm" =>
                  IF log[k].ok
                  THEN /\ tasks[t].hasPlan
                       /\ \A j \in DOMAIN log :
                             j > k => log[j].op \notin {"llm", "sleep"}
                  ELSE IF AttemptNo(log, k) < 3
                  THEN /\ k + 1 \in DOMAIN log
                       /\ log[k + 1].op = "sleep"
                       /\ log[k + 1].ms = AttemptNo(log, k) * 1000
                       /\ IF k + 2 \in DOMAIN log
                          THEN log[k + 2].op = "llm"
                          ELSE tasks[t].pc = "llm"
                  ELSE /\ k = Len(log)
                       /\ tasks[t].pc = "aborted"
                       /\ tasks[t].err = "PlanGenerationFailed"

\* Two failed attempts, two waits, and a third attempt that returned a plan.
C8_Witness ==
    \E t \in Tasks :
        /\ CountOp(tasks[t].calls, "llm") = 3
        /\ CountOp(tasks[t].calls, "sleep") = 2
        /\ tasks[t].hasPlan
        /\ tasks[t].pc \in {"comment", "validate"}

\* ---------------------------------------------------------------------- C9
\* C9: the labelIds of the re-triage update (here: of a re-triage started by a
\* human's comment) equal, as a set, the fetched labels minus the awaiting-info
\* marker united with the validated new labels, and hold no label ID twice.
C9_RetriageLabelMerge ==
    \A t \in Tasks :
        (IsCommentEvent(tasks[t]) /\ tasks[t].origin = "human") =>
            \A k \in DOMAIN tasks[t].calls :
                tasks[t].calls[k].op = "updateIssue" =>
                    LET sent == Val(tasks[t].calls[k].input.labelIds) IN
                    /\ SeqToSet(sent) =
                          (SeqToSet(tasks[t].issue.labelIds) \ {Awaiting})
                              \cup SeqToSet(tasks[t].validLabelIds)
                    /\ NoDuplicates(sent)

\* --------------------------------------------------------------------- C10
\* C10: the label set written by a successful re-triage update (here: of a
\* re-triage started by a human's comment) never contains the awaiting-info
\* marker, whatever plan the model returned.
C10_RetriageRemovesMarker ==
    \A t \in Tasks :
        (IsCommentEvent(tasks[t]) /\ tasks[t].origin = "human") =>
            \A k \in DOMAIN tasks[t].calls :
                (tasks[t].calls[k].op = "updateIssue" /\ tasks[t].calls[k].ok)
                    => ~(Awaiting \in SeqToSet(Val(tasks[t].calls[k].input.labelIds)))

\* --------------------------------------------------------------------- C11
\* The completion branch by the plan's own flag: needsClarification is false.
IsCompletePlan(r) == r.hasPlan /\ ~r.plan.needsClarification

\* C11: on the issue-created path with a plan that does not request
\* clarification, the issue update carries the plan's rewrite title and
\* description (when present) together with team, validated labels, estimate,
\* mapped priority and assignee.
C11_NewIssueUpdateCarriesRewrite ==
    \A t \in Tasks :
        (IsIssueEvent(tasks[t]) /\ IsCompletePlan(tasks[t])) =>
            \A k \in DOMAIN tasks[t].calls :
                tasks[t].calls[k].op = "updateIssue" =>
                    LET input == tasks[t].calls[k].input
                        plan == tasks[t].plan IN
                    /\ input.title = RewriteField(plan, "title")
                    /\ input.description = RewriteField(plan, "description")
                    /\ input.teamId = plan.teamId
                    /\ input.labelIds = Some(tasks[t].validLabelIds)
                    /\ input.estimate = plan.estimate
                    /\ input.priority = MapPriority(plan.priority)
                    /\ input.assigneeId = plan.assigneeId

\* --------------------------------------------------------------------- C12
\* The tracker as an earlier clarification left it: the issue, the system's
\* clarification comment, and the awaiting-info label on the issue (the label
\* addition of worker.ts:176 succeeded) or not on it (the addition failed, or
\* no label is configured).  No handler is running.
ClarifiedLabelSets(awaitingId) ==
    {<<>>, <<LabelB>>} \cup (IF awaitingId # "" THEN {<<awaitingId>>} ELSE {})

ReplyInit ==
    /\ \E c \in Configs :
        /\ env = [AWAITING_INFO_LABEL_ID |-> c.awaiting]
        /\ kv = c.kv
        /\ \E labelIds \in ClarifiedLabelSets(c.awaiting) :
              issue = [NoIssue EXCEPT !.exists = TRUE, !.title = "Old title",
                                      !.description = Some("vague"),
                                      !.labelIds = labelIds, !.teamId = "team-id-0"]
    /\ comments = <<[body |-> <<"question">> \o BOT_MARKER, author |-> "bot"]>>
    /\ tasks = <<>>
    /\ faults = 0

\* Number of replies humans write in one behaviour of the conversational loop.
MaxReplies == 1

HumanReplies ==
    /\ Cardinality({t \in DOMAIN tasks : tasks[t].origin = "human"}) < MaxReplies
    /\ HumanComments

\* worker.ts:204-272  handleComment and what it calls; humans reply.
ReplyNext ==
    \/ HumanReplies
    \/ \E t \in DOMAIN tasks : Fetch(t)
    \/ \E t \in DOMAIN tasks : GetIssue(t)
    \/ \E t \in DOMAIN tasks : GetTeamKb(t)
    \/ \E t \in DOMAIN tasks : GetLabelKb(t)
    \/ \E t \in DOMAIN tasks : GetComments(t)
    \/ \E t \in DOMAIN tasks : LlmAttempt(t)
    \/ \E t \in DOMAIN tasks : CreateComment(t)
    \/ \E t \in DOMAIN tasks : ValidateLabels(t)
    \/ \E t \in DOMAIN tasks : UpdateIssue(t)
    \/ \E t \in DOMAIN tasks : CreateSubtasks(t)
    \/ \E t \in DOMAIN tasks : AddReaction(t)

\* One step of the handler of request t.
HandlerStep(t) ==
    /\ t \in DOMAIN tasks
    /\ \/ Fetch(t) \/ GetIssue(t) \/ GetTeamKb(t) \/ GetLabelKb(t)
       \/ GetComments(t) \/ LlmAttempt(t) \/ CreateComment(t)
       \/ AddAwaitingLabel(t) \/ ValidateLabels(t) \/ UpdateIssue(t)
       \/ CreateSubtasks(t) \/ Subscribe(t) \/ AddReaction(t)

\* worker.ts:287-289  ctx.waitUntil keeps the handler of every request running
\* until it returns or throws, and every remote call it awaits settles.
HandlersRun == \A t \in 1..MaxEvents : WF_vars(HandlerStep(t))

ReplySpec == ReplyInit /\ [][ReplyNext]_vars /\ HandlersRun

\* Request t is a verified comment-created event of a human's marker-free
\* comment, written after the system's clarification comment.
IsReply(t) ==
    /\ t \in DOMAIN tasks
    /\ IsCommentEvent(tasks[t])
    /\ tasks[t].origin = "human"
    /\ ~Includes(tasks[t].body, BOT_MARKER)
    /\ comments # <<>>
    /\ comments[1].author = "bot"

\* The reply was re-evaluated (a plan was generated for it), or a read or the
\* model call failed.
Evaluated(t) ==
    /\ t \in DOMAIN tasks
    /\ tasks[t].hasPlan \/ tasks[t].pc = "aborted"

\* C12 (as stated): a human's marker-free comment created after the system's
\* clarification comment is eventually re-evaluated (a plan is generated for
\* it) unless a read or the model call fails, whether or not
\* AWAITING_INFO_LABEL_ID is configured and whether or not the label addition
\* succeeded.
C12_ReplyAlwaysEvaluated ==
    \A t \in 1..MaxEvents : IsReply(t) ~> Evaluated(t)

\* The handler fetched the issue and found the configured label on it.
FoundAwaiting(t) ==
    /\ IsReply(t)
    /\ tasks[t].fetched
    /\ Awaiting # ""
    /\ Awaiting \in SeqToSet(tasks[t].issue.labelIds)

\* C12 (amended): such a comment is eventually re-evaluated, unless a read or
\* the model call fails, when AWAITING_INFO_LABEL_ID is configured and the
\* issue carries that label at the time handleComment fetches it.
C12_AwaitingReplyEvaluated ==
    \A t \in 1..MaxEvents : FoundAwaiting(t) ~> Evaluated(t)

\* A reply on an issue carrying the label got its plan.
C12_Witness ==
    \E t \in Tasks : FoundAwaiting(t) /\ tasks[t].hasPlan

\* --------------------------------------------------------------------- C13
\* Call k of the log comes after a model call.
AfterModelCall(log, k) == \E j \in 1..(k - 1) : log[j].op = "llm"

InCompletionBranch(r) == r.hasPlan /\ ~AsksClarification(r.plan)

\* The operations of the tracker mutations of a log, in the order of the calls.
MutationsOf(log) ==
    LET m == SelectSeq(log, LAMBDA e : e.op \in MutationOps)
    IN [k \in DOMAIN m |-> m[k].op]

IsPrefix(a, b) == Len(a) <= Len(b) /\ a = SubSeq(b, 1, Len(a))

\* The order C14 states: the update, one creation per subtask title, the
\* subscription on the issue-created path of an event with a creator, the
\* reaction.
CompletionOrder(r) ==
    <<"updateIssue">>
    \o [k \in 1..Len(OrEmpty(r.plan.subtasks)) |-> "issueCreate"]
    \o (IF IsIssueEvent(r) /\ IsSome(r.creator) THEN <<"subscribe">> ELSE <<>>)
    \o <<"reaction">>

\* C14: in the completion branch the mutations are issued in the order issue
\* update, subtask creations (only for a plan with at least one subtask),
\* subscription, reaction, each after the one before has settled; the
\* subscription only on the issue-created path of an event that carries a
\* creator, never on the re-triage path; a handler that returns issued them all.
C14_CompletionOrder ==
    \A t \in Tasks :
        InCompletionBranch(tasks[t]) =>
            /\ IsPrefix(MutationsOf(tasks[t].calls), CompletionOrder(tasks[t]))
            /\ tasks[t].pc = "done" =>
                  MutationsOf(tasks[t].calls) = CompletionOrder(tasks[t])
            /\ IsCommentEvent(tasks[t]) =>
                  CountOp(tasks[t].calls, "subscribe") = 0

\* A first triage with two subtasks and a creator ran to its end.
C14_Witness ==
    \E t \in Tasks :
        /\ IsIssueEvent(tasks[t])
        /\ InCompletionBranch(tasks[t])
        /\ tasks[t].pc = "done"
        /\ MutationsOf(tasks[t].calls) =
              <<"updateIssue", "issueCreate", "issueCreate", "subscribe", "reaction">>

\* --------------------------------------------------------------------- C15
\* The tracker operations that are one mutation each and throw on failure.
SingleMutationOps == {"updateIssue", "createComment", "subscribe", "reaction"}

\* C15: a failed issue update, comment creation, subscription or reaction is
\* the last call of its event: the handler ends with MutationFailed and issues
\* no later mutation.
C15_FailedMutationEndsEvent ==
    \A t \in Tasks :
        LET log == tasks[t].calls IN
        \A k \in DOMAIN log :
            (log[k].op \in SingleMutationOps /\ ~log[k].ok) =>
                /\ k = Len(log)
                /\ tasks[t].pc = "aborted"
                /\ tasks[t].err = "MutationFailed"

\* The issue update of a first triage failed whose plan has subtasks and whose
\* event has a creator: creations, subscription and reaction would have followed.
C15_Witness ==
    \E t \in Tasks :
        /\ IsIssueEvent(tasks[t])
        /\ IsSome(tasks[t].creator)
        /\ IsSome(tasks[t].plan.subtasks)
        /\ Len(Val(tasks[t].plan.subtasks)) > 0
        /\ tasks[t].pc = "aborted"
        /\ tasks[t].calls[Len(tasks[t].calls)].op = "updateIssue"
        /\ ~tasks[t].calls[Len(tasks[t].calls)].ok

\* --------------------------------------------------------------------- C16
\* The entries of the subtask creations in a log.
CreationsOf(log) == SelectSeq(log, LAMBDA e : e.op = "issueCreate")

\* The number of subtasks the creations of request r produced.
CreatedBy(r) == Len(SelectSeq(r.calls, LAMBDA e : e.op = "issueCreate" /\ e.ok))

RECURSIVE TotalCreated(_)
TotalCreated(n) == IF n = 0 THEN 0 ELSE CreatedBy(tasks[n]) + TotalCreated(n - 1)

\* C16: for a batch of N subtask titles exactly N creation calls are issued,
\* one per title and each for the issue, whichever of them fail; the failures
\* raise nothing: the handler goes on to the subscription and the reaction;
\* only the created items are returned, so the issue has as many subtasks as
\* creations succeeded.
C16_SubtasksPartialFailure ==
    /\ \A t \in Tasks :
        LET made == CreationsOf(tasks[t].calls)
            titles == OrEmpty(tasks[t].plan.subtasks) IN
        /\ Len(made) \in {0, Len(titles)}
        /\ \A k \in DOMAIN made : made[k].body = <<titles[k]>>
        /\ made # <<>> =>
              /\ tasks[t].pc \in {"subscribe", "react", "done", "aborted"}
              /\ tasks[t].pc = "aborted" =>
                    /\ tasks[t].err = "MutationFailed"
                    /\ tasks[t].calls[Len(tasks[t].calls)].op
                          \in {"subscribe", "reaction"}
        /\ (tasks[t].pc = "done" /\ InCompletionBranch(tasks[t])) =>
              Len(made) = Len(titles)
    /\ Len(issue.subtasks) = TotalCreated(Len(tasks))

\* Both creations of a batch of two failed and the handler still returned after
\* the reaction.
C16_Witness ==
    \E t \in Tasks :
        LET made == CreationsOf(tasks[t].calls) IN
        /\ Len(made) = 2
        /\ \A k \in DOMAIN made : ~made[k].ok
        /\ tasks[t].pc = "done"
        /\ tasks[t].calls[Len(tasks[t].calls)].op = "reaction"

\* ======================================================= completion of a plan
\* One event whose plan is complete: the label list, the priority and the
\* subtasks of the plan and the label document of the KV store range over
\* bounded sets.
\* Length of the longest label list of a plan.
MaxLabelIds == 3

LabelUniverse == {LabelA, LabelB, LabelFake}

LabelLists == UNION {[1..n -> LabelUniverse] : n \in 0..MaxLabelIds}

\* part_001:20-29  label documents: well-formed, without data.issueLabels.nodes,
\* with an empty node list, with one node
LabelKbEmpty == [hasNodes |-> TRUE, nodes |-> {}]

LabelDocs ==
    {LabelKbOk, LabelKbMalformed, LabelKbEmpty, [hasNodes |-> TRUE, nodes |-> {LabelA}]}

\* part_000:16  the enum of priority
PriorityNames == {"Urgent", "High", "Medium", "Low", "No priority"}

\* part_000:11-24  plans with needsClarification = false
CompletePlans ==
    { [BasePlan EXCEPT !.labelIds = l, !.priority = p, !.subtasks = s] :
        l \in {None} \cup {Some(q) : q \in LabelLists},
        p \in {None} \cup {Some(n) : n \in PriorityNames},
        s \in {None, Some(<<"sub-1">>)} }

\* No issue yet, or an issue that awaits a reply to the system's clarification.
CompletionInit ==
    /\ env = [AWAITING_INFO_LABEL_ID |-> AwaitingLabel]
    /\ \E doc \in LabelDocs : kv = [KvOk EXCEPT !.labels = Some(doc)]
    /\ \/ issue = NoIssue /\ comments = <<>>
       \/ /\ issue = [NoIssue EXCEPT !.exists = TRUE, !.title = "Old title",
                                     !.labelIds = <<LabelB, AwaitingLabel>>,
                                     !.teamId = "team-id-0"]
          /\ comments = <<[body |-> <<"question">> \o BOT_MARKER, author |-> "bot"]>>
    /\ tasks = <<>>
    /\ faults = 0

IssueArrives == tasks = <<>> /\ HumanCreatesIssue

ReplyArrives == tasks = <<>> /\ HumanComments

\* part_000:56-78  the first attempt returns a schema-conforming complete plan
ModelAnswers(t) ==
    /\ tasks[t].pc = "llm"
    /\ \E plan \in CompletePlans : SetTask(t, GotPlan(tasks[t], plan))
    /\ UNCHANGED <<env, kv, issue, comments, faults>>

CompletionNext ==
    \/ IssueArrives
    \/ ReplyArrives
    \/ \E t \in DOMAIN tasks : Fetch(t)
    \/ \E t \in DOMAIN tasks : GetIssue(t)
    \/ \E t \in DOMAIN tasks : GetTeamKb(t)
    \/ \E t \in DOMAIN tasks : GetLabelKb(t)
    \/ \E t \in DOMAIN tasks : GetComments(t)
    \/ \E t \in DOMAIN tasks : ModelAnswers(t)
    \/ \E t \in DOMAIN tasks : ValidateLabels(t)
    \/ \E t \in DOMAIN tasks : UpdateIssue(t)
    \/ \E t \in DOMAIN tasks : CreateSubtasks(t)
    \/ \E t \in DOMAIN tasks : Subscribe(t)
    \/ \E t \in DOMAIN tasks : AddReaction(t)

CompletionSpec == CompletionInit /\ [][CompletionNext]_vars

\* --------------------------------------------------------------------- C17
RECURSIVE IsSubsequence(_, _)
\* a is b with some elements left out, the others in their order.
IsSubsequence(a, b) ==
    IF a = <<>> THEN TRUE
    ELSE IF b = <<>> THEN FALSE
    ELSE IF Head(a) = Head(b) THEN IsSubsequence(Tail(a), Tail(b))
    ELSE IsSubsequence(a, Tail(b))

Occurrences(q, id) == Len(SelectSeq(q, LAMBDA x : x = id))

\* validateLabelIds has returned to the handler of request r.
Validated(r) == r.hasPlan /\ r.pc \notin {"llm", "comment", "validate"}

\* The node list of the label document in the KV store (none: no IDs).
KbLabelIds == IF Val(kv.labels).hasNodes THEN Val(kv.labels).nodes ELSE {}

\* C17: the result of validateLabelIds is a subsequence of its input, in the
\* input's order, that holds every occurrence of the IDs of the label KB's node
\* list and no other ID; it is empty for an empty input, for an empty node
\* list, and, without an error, for a document lacking data.issueLabels.nodes.
C17_ValidateLabelIds ==
    \A t \in Tasks :
        Validated(tasks[t]) =>
            LET input == OrEmpty(tasks[t].plan.labelIds)
                result == tasks[t].validLabelIds
                doc == Val(kv.labels) IN
            /\ IsSubsequence(result, input)
            /\ \A id \in SeqToSet(input) \cup SeqToSet(result) :
                  Occurrences(result, id) =
                      IF id \in KbLabelIds THEN Occurrences(input, id) ELSE 0
            /\ input = <<>> => result = <<>>
            /\ doc.nodes = {} => result = <<>>
            /\ ~doc.hasNodes => result = <<>>
            /\ tasks[t].err # "ConfigurationMissing"

\* An invalid ID between two valid ones, the second valid one twice, against
\* the full label document.
C17_Witness ==
    \E t \in Tasks :
        /\ Validated(tasks[t])
        /\ tasks[t].plan.labelIds = Some(<<LabelB, LabelFake, LabelB>>)
        /\ tasks[t].validLabelIds = <<LabelB, LabelB>>

\* --------------------------------------------------------------------- C18
\* C18: in the completion branch of the issue-created path the labelIds sent to
\* updateIssue are the plan's labelIds (absent: none) with exactly the IDs that
\* are not in the label KB left out, and an invalid ID in the plan does not end
\* the event: the handler ends early only when a tracker mutation failed.
C18_HallucinatedLabelsDropped ==
    \A t \in Tasks :
        (IsIssueEvent(tasks[t]) /\ InCompletionBranch(tasks[t])) =>
            LET log == tasks[t].calls IN
            /\ \A k \in DOMAIN log :
                  log[k].op = "updateIssue" =>
                      /\ IsSome(log[k].input.labelIds)
                      /\ Val(log[k].input.labelIds) =
                            SelectSeq(OrEmpty(tasks[t].plan.labelIds),
                                      LAMBDA id : id \in KbLabelIds)
            /\ tasks[t].pc = "aborted" =>
                  /\ log[Len(log)].op \in SingleMutationOps
                  /\ ~log[Len(log)].ok
            /\ tasks[t].pc = "done" => CountOp(log, "updateIssue") = 1

\* A first triage whose plan names only labels that do not exist ran to its end.
C18_Witness ==
    \E t \in Tasks :
        /\ IsIssueEvent(tasks[t])
        /\ tasks[t].plan.labelIds = Some(<<LabelFake, LabelFake>>)
        /\ tasks[t].pc = "done"
        /\ issue.labelIds = <<>>
        /\ issue.reactions = 1

\* --------------------------------------------------------------------- C19
\* C19: in both handlers the priority sent to updateIssue is 1 for Urgent, 2
\* for High, 3 for Medium, 4 for Low and 0 for 'No priority'; for a plan
\* without priority the field is unset.
C19_PriorityMapping ==
    \A t \in Tasks :
        \A k \in DOMAIN tasks[t].calls :
            (tasks[t].calls[k].op = "updateIssue" /\ InCompletionBranch(tasks[t])) =>
                LET sent == tasks[t].calls[k].input.priority
                    priority == tasks[t].plan.priority IN
                /\ priority = Some("Urgent") => sent = Some(1)
                /\ priority = Some("High") => sent = Some(2)
                /\ priority = Some("Medium") => sent = Some(3)
                /\ priority = Some("Low") => sent = Some(4)
                /\ priority = Some("No priority") => sent = Some(0)
                /\ priority = None => sent = None

\* A re-triage with 'No priority' wrote priority 0 to the issue.
C19_Witness ==
    \E t \in Tasks :
        /\ IsCommentEvent(tasks[t])
        /\ tasks[t].plan.priority = Some("No priority")
        /\ tasks[t].pc = "done"
        /\ issue.priority = Some(0)

\* --------------------------------------------------------------------- C20
\* C20: when the plan of a re-triage (here: one started by a human's comment)
\* still requests clarification, the handler issues one comment creation and no
\* issue update, so labels, title and description stay as they are and the
\* issue keeps the awaiting-info label.
C20_StillUnclearOnlyComments ==
    \A t \in Tasks :
        ( /\ IsCommentEvent(tasks[t])
          /\ tasks[t].origin = "human"
          /\ tasks[t].hasPlan
          /\ tasks[t].plan.needsClarification ) =>
            /\ CountOp(tasks[t].calls, "updateIssue") = 0
            /\ CountOp(tasks[t].calls, "createComment") <= 1
            /\ tasks[t].pc = "done" => CountOp(tasks[t].calls, "createComment") = 1

\* ---------------------------------------------------------------- C21
FailedKbReads(r) == {k \in 1..Len(r.calls) : r.calls[k].op = "kvGet" /\ ~r.calls[k].ok}

\* C21: when a knowledge-base document (team rules or label list) is absent at
\* the moment an event reads it, the event aborts with a configuration error
\* at that read: the read is the last call of the event and is made once (no
\* retry), and the event makes no model call and no tracker mutation.
C21_MissingKbAborts ==
    \A t \in Tasks :
        LET r == tasks[t] IN
        FailedKbReads(r) # {} =>
            /\ r.pc = "aborted"
            /\ r.err = "ConfigurationMissing"
            /\ FailedKbReads(r) = {Len(r.calls)}
            /\ CountOp(r.calls, "llm") = 0
            /\ \A k \in 1..Len(r.calls) : r.calls[k].op \notin MutationOps

\* An issue-created event read the team rules and stopped at the absent label
\* list.
C21_Witness ==
    \E t \in Tasks :
        /\ IsIssueEvent(tasks[t])
        /\ tasks[t].pc = "aborted"
        /\ Len(tasks[t].calls) = 2
        /\ tasks[t].calls[1].ok
        /\ tasks[t].calls[2] = [Entry("kvGet", FALSE) EXCEPT !.key = "labels.json"]

\* ---------------------------------------------------------------- C22
Ended(r) == r.pc \in {"done", "aborted"}

\* C22: an unrecoverable error in the background task of one event ends that
\* event only.  The event stays aborted and is never run again, its response
\* stays the 200 that was returned before the task started, and every other
\* request that has not ended can still take its next step (be acknowledged,
\* be processed).
C22_FailureIsolation ==
    /\ [](\A t \in Tasks :
            tasks[t].err # "" => tasks[t].pc = "aborted" /\ tasks[t].status = 200)
    /\ [][\A t \in Tasks : tasks[t].err # "" => tasks'[t] = tasks[t]]_vars
    /\ [](\A u \in Tasks : ~Ended(tasks[u]) => ENABLED HandlerStep(u))

\* One event was aborted by an error and a later event was acknowledged and
\* processed to its end.
C22_Witness ==
    \E t, u \in Tasks :
        /\ t < u
        /\ tasks[t].pc = "aborted"
        /\ tasks[t].status = 200
        /\ tasks[u].pc = "done"
        /\ tasks[u].status = 200
        /\ tasks[u].calls # <<>>

\* ---------------------------------------------------------------- C23
\* The operations of the tracker mutations of a log that succeeded, in order.
Applied(r) ==
    LET m == SelectSeq(r.calls, LAMBDA e : e.op \in MutationOps /\ e.ok)
    IN [k \in DOMAIN m |-> m[k].op]

\* (a) a new clarification comment, with the awaiting-info label where the
\* handler attaches it (issue-created path, marker configured)
OutcomeClarification(r) ==
    Applied(r) = IF IsIssueEvent(r) /\ Awaiting # ""
                 THEN <<"createComment", "updateIssue">>
                 ELSE <<"createComment">>

\* (b) updated fields with the completion reaction
OutcomeCompletion(r) ==
    /\ Len(Applied(r)) >= 2
    /\ Applied(r)[1] = "updateIssue"
    /\ Applied(r)[Len(Applied(r))] = "reaction"
    /\ \A k \in 1..Len(Applied(r)) : Applied(r)[k] # "createComment"

\* (c) no change
OutcomeNone(r) == Applied(r) = <<>>

\* The mutations that succeeded before a later one failed.
OutcomePartial(r) ==
    \/ /\ Applied(r) = <<"createComment">>
       /\ IsIssueEvent(r) /\ Awaiting # ""
    \/ /\ Applied(r) # <<>>
       /\ Applied(r)[1] = "updateIssue"
       /\ \A k \in 1..Len(Applied(r)) : Applied(r)[k] \notin {"reaction", "createComment"}

\* C23 as stated: after the processing of any event has ended the tracker
\* shows exactly one of (a), (b), (c); no partially applied outcome is
\* reachable.  (The three are mutually exclusive by their first mutation.)
C23_OutcomeTrichotomy ==
    \A t \in Tasks :
        Ended(tasks[t]) =>
            \/ OutcomeClarification(tasks[t])
            \/ OutcomeCompletion(tasks[t])
            \/ OutcomeNone(tasks[t])

\* C23 as the code has it: an event that ended without a failed tracker
\* mutation left exactly one of (a), (b), (c); an event aborted by a failed
\* mutation left (c) or the mutations that had succeeded before the failure.
C23_OutcomeUnlessMutationFails ==
    \A t \in Tasks :
        Ended(tasks[t]) =>
            IF tasks[t].err # "MutationFailed"
            THEN \/ OutcomeClarification(tasks[t])
                 \/ OutcomeCompletion(tasks[t])
                 \/ OutcomeNone(tasks[t])
            ELSE OutcomeNone(tasks[t]) \/ OutcomePartial(tasks[t])

\* The fields were updated, the reaction failed: the event ended with a
\* partially applied completion.
C23_Witness ==
    \E t \in Tasks :
        /\ tasks[t].pc = "aborted"
        /\ Applied(tasks[t]) = <<"updateIssue">>
        /\ tasks[t].calls[Len(tasks[t].calls)] = Entry("reaction", FALSE)

\* ------------------------------------------------ specification of requests
\* Every request the worker may receive about one existing issue and its last
\* comment, written by a human: any payload type and action, any signature
\* header.  The issue is new, or it awaits the reply to a clarification.
MaxRequests == 1

PayloadTypes == {"Issue", "Comment", "Project"}
PayloadActions == {"create", "update", "remove"}

RequestInit ==
    /\ env = [AWAITING_INFO_LABEL_ID |-> AwaitingLabel]
    /\ kv = KvOk
    /\ \E labelIds \in ClarifiedLabelSets(AwaitingLabel) :
        issue = [NoIssue EXCEPT !.exists = TRUE, !.title = "Old title",
                                !.labelIds = labelIds, !.teamId = "team-id-0"]
    /\ comments = << [body |-> <<"question">> \o BOT_MARKER, author |-> "bot"],
                     [body |-> <<"text">>, author |-> "human"] >>
    /\ tasks = <<>>
    /\ faults = 0

\* The creator field of a payload: only issue payloads may carry one.
Creators(type) == IF type = "Issue" THEN {None, Some("user-1")} ELSE {None}

\* worker.ts:275-284  a POST arrives: its header and its JSON payload
Request ==
    /\ Len(tasks) < MaxRequests
    /\ \E type \in PayloadTypes, action \in PayloadActions,
          header \in SignatureHeaders :
        \E creator \in Creators(type) :
            tasks' = Append(tasks,
                [NewTask(type, action, VerifySignature(header),
                         IF type = "Comment" THEN comments[Len(comments)].body ELSE <<>>,
                         "human", creator)
                    EXCEPT !.header = header])
    /\ UNCHANGED <<env, kv, issue, comments, faults>>

RequestNext ==
    \/ Request
    \/ \E t \in DOMAIN tasks : Fetch(t)
    \/ \E t \in DOMAIN tasks : GetIssue(t)
    \/ \E t \in DOMAIN tasks : GetTeamKb(t)
    \/ \E t \in DOMAIN tasks : GetLabelKb(t)
    \/ \E t \in DOMAIN tasks : GetComments(t)
    \/ \E t \in DOMAIN tasks : LlmAttempt(t)
    \/ \E t \in DOMAIN tasks : CreateComment(t)
    \/ \E t \in DOMAIN tasks : AddAwaitingLabel(t)
    \/ \E t \in DOMAIN tasks : ValidateLabels(t)
    \/ \E t \in DOMAIN tasks : UpdateIssue(t)
    \/ \E t \in DOMAIN tasks : CreateSubtasks(t)
    \/ \E t \in DOMAIN tasks : Subscribe(t)
    \/ \E t \in DOMAIN tasks : AddReaction(t)

RequestSpec == RequestInit /\ [][RequestNext]_vars

\* ---------------------------------------------------------------- C24
Verified(r) == VerifySignature(r.header)

Answered(r) == r.pc # "received"

IsCreation(r) == r.action = "create" /\ r.type \in {"Issue", "Comment"}

\* C24: a verified request triggers processing only when its action is create
\* and its type is Issue or Comment.  Every other combination of type and
\* action is answered 200 and causes no knowledge-base read, no model call
\* and no tracker call; a creation of an issue or of a human's comment is
\* answered 200 as well and its handler runs.
C24_EventFilter ==
    \A t \in Tasks :
        (Verified(tasks[t]) /\ Answered(tasks[t])) =>
            /\ tasks[t].status = 200
            /\ ~IsCreation(tasks[t]) =>
                  tasks[t].pc = "done" /\ tasks[t].calls = <<>>
            /\ (IsCreation(tasks[t]) /\ Ended(tasks[t])) =>
                  tasks[t].calls # <<>> \/ IsBotComment(tasks[t].body)

\* A verified update of the issue (the payload of the test 'should ignore
\* non-create actions', signed) was answered 200 and nothing was called.
C24_Witness ==
    \E t \in Tasks :
        /\ Verified(tasks[t])
        /\ tasks[t].type = "Issue"
        /\ tasks[t].action = "update"
        /\ tasks[t].status = 200
        /\ tasks[t].pc = "done"
        /\ tasks[t].calls = <<>>

\* ---------------------------------------------------------------- C25
\* The issue id of the payload (the test's sample payload).
PayloadIssueId == "issue-id-123"

\* C25: a POST with a well-formed create-Issue payload, sent without a
\* linear-signature header, is answered with status 200 and a JSON body whose
\* success is true and whose issueId is the id of the payload's issue.
C25_UnsignedCreateAnsweredWithJson ==
    \A t \in Tasks :
        ( /\ tasks[t].type = "Issue"
          /\ tasks[t].action = "create"
          /\ tasks[t].header = None
          /\ Answered(tasks[t]) ) =>
            /\ tasks[t].status = 200
            /\ LET b == ResponseBody(tasks[t].status) IN
                /\ b.kind = "json"
                /\ b.success = TRUE
                /\ b.issueId = PayloadIssueId

\* ---------------------------------------------------------------- C26
\* The header is present and the bytes it encodes are the HMAC of the body.
SignatureMatches(r) == IsSome(r.header) /\ MatchHexPairs(Val(r.header)) = BodyMac

ReplyBodies == << <<"reply-1">>, <<"reply-2">> >>

RaceInit ==
    /\ env = [AWAITING_INFO_LABEL_ID |-> AwaitingLabel]
    /\ kv = KvOk
    /\ issue = [NoIssue EXCEPT !.exists = TRUE, !.title = "Old title",
                               !.labelIds = <<LabelB, AwaitingLabel>>,
                               !.teamId = "team-id-0"]
    /\ comments = << [body |-> <<"question">> \o BOT_MARKER, author |-> "bot"] >>
                  \o [k \in DOMAIN ReplyBodies |->
                        [body |-> ReplyBodies[k], author |-> "human"]]
    /\ tasks = [k \in DOMAIN ReplyBodies |->
                  NewTask("Comment", "create", TRUE, ReplyBodies[k], "human", None)]
    /\ faults = 0

RaceNext ==
    \/ \E t \in DOMAIN tasks : Fetch(t)
    \/ \E t \in DOMAIN tasks : GetIssue(t)
    \/ \E t \in DOMAIN tasks : GetTeamKb(t)
    \/ \E t \in DOMAIN tasks : GetLabelKb(t)
    \/ \E t \in DOMAIN tasks : GetComments(t)
    \/ \E t \in DOMAIN tasks : LlmAttempt(t)
    \/ \E t \in DOMAIN tasks : CreateComment(t)
    \/ \E t \in DOMAIN tasks : ValidateLabels(t)
    \/ \E t \in DOMAIN tasks : UpdateIssue(t)
    \/ \E t \in DOMAIN tasks : CreateSubtasks(t)
    \/ \E t \in DOMAIN tasks : AddReaction(t)

RaceSpec == RaceInit /\ [][RaceNext]_vars

\* ---------------------------------------------------------------- C27
\* The handler of request t read the issue while it carried the marker.
SawMarker(t) ==
    /\ IsCommentEvent(tasks[t])
    /\ tasks[t].fetched
    /\ Awaiting \in SeqToSet(tasks[t].issue.labelIds)

\* Request t made a successful call of the operation.
Did(t, op) == \E k \in 1..Len(tasks[t].calls) :
                  tasks[t].calls[k].op = op /\ tasks[t].calls[k].ok

\* C27: nothing serialises the handlers of two comment-created events of one
\* issue.  The relevance guard of each is decided on the labels its own fetch
\* returned and is never taken again: an event that saw the marker is not
\* discarded, whatever the other event has done to the issue since; and every
\* event that has not ended can take its next step whatever the position of
\* the other one.  (The interleaving the claim states is C27_Witness.)
C27_NoSerialisation ==
    \A t \in Tasks :
        /\ SawMarker(t) => ~(tasks[t].pc = "done" /\ Len(tasks[t].calls) = 1)
        /\ ~Ended(tasks[t]) => ENABLED HandlerStep(t)

\* Both events passed the guard and both got a plan; both updated the issue
\* and both added the completion reaction: the issue carries two reactions.
C27_Witness ==
    /\ \A t \in {1, 2} :
        /\ SawMarker(t)
        /\ tasks[t].hasPlan
        /\ Did(t, "updateIssue")
        /\ Did(t, "reaction")
    /\ issue.reactions = 2

\* The same with two clarification comments: both events asked again.
C27_TwoClarifications ==
    /\ \A t \in {1, 2} : SawMarker(t) /\ tasks[t].hasPlan /\ Did(t, "createComment")
    /\ Len(SelectSeq(comments, LAMBDA c : c.author = "bot")) = 3

\* ---------------------------------------------------------------- C28
\* part_000:81, part_001:116  whether a call writes a console line: a failed
\* model attempt does; a tracker call does when its request is rejected and
\* does not when the payload says success: false (part_001:212-214 throws
\* without writing), counted here as written; a KV read never does
\* (part_001:36-42, 49-55).
WritesLine(e) ==
    /\ ~e.ok
    /\ e.op \in {"llm", "getIssue", "getComments"} \cup MutationOps

\* worker.ts:209, 218, 222  handleComment writes a line when it returns at a
\* guard or goes on; handleNewIssue (worker.ts:155-198) writes none.
HandlerLines(r) ==
    IF r.type = "Comment" /\ r.action = "create"
          /\ ((IsBotComment(r.body) /\ r.pc = "done") \/ r.fetched)
    THEN 1 ELSE 0

\* The number of console lines the processing of a request has written, at
\* least (for handleComment) and as far as the abort of an event goes.
ConsoleLines(r) ==
    HandlerLines(r) + Cardinality({k \in 1..Len(r.calls) : WritesLine(r.calls[k])})

\* C28: every event aborted by an unrecoverable error (knowledge base missing,
\* plan generation exhausted, a tracker mutation failing or reporting
\* success: false) has written at least one log entry when its task ends.
C28_AbortIsLogged ==
    \A t \in Tasks :
        tasks[t].pc = "aborted" => ConsoleLines(tasks[t]) >= 1

\* ---------------------------------------------------------------- C29
\* C29: every teamId a handler sends in an issue update is a key of the team
\* knowledge base that was loaded for the event.
C29_TeamIdIsKbKey ==
    \A t \in Tasks :
        \A k \in 1..Len(tasks[t].calls) :
            LET e == tasks[t].calls[k] IN
            (e.op = "updateIssue" /\ IsSome(e.input.teamId)) =>
                /\ IsSome(kv.team)
                /\ Val(e.input.teamId) \in Val(kv.team)

\* ---------------------------------------------------------------- C30
\* C30: attaching the awaiting-info marker in the clarification branch of an
\* issue-created event only adds the marker: the label set of the issue after
\* the update is its label set before the update plus the marker.
C30_AwaitingLabelOnlyAdds ==
    [][ \A t \in Tasks :
          (tasks[t].pc = "addAwaiting" /\ tasks'[t].pc = "done") =>
              SeqToSet(issue'.labelIds) = SeqToSet(issue.labelIds) \cup {Awaiting}
      ]_vars

\* ------------------------------------------- specification of redelivery
\* The tracker delivers the webhook of one event again (the same payload, the
\* same signature): the creation of a new issue, or a human's reply on an
\* issue that awaits information.
MaxDeliveries == 2

Deliveries == Cardinality({t \in DOMAIN tasks : tasks[t].origin = "human"})

RedeliveryInit ==
    /\ env = [AWAITING_INFO_LABEL_ID |-> AwaitingLabel]
    /\ kv = KvOk
    /\ faults = 0
    /\ \/ /\ issue = [NoIssue EXCEPT !.exists = TRUE, !.title = "Old title",
                                     !.teamId = "team-id-0"]
          /\ comments = <<>>
          /\ tasks = << NewTask("Issue", "create", TRUE, <<>>, "human",
                                Some("user-1")) >>
       \/ /\ issue = [NoIssue EXCEPT !.exists = TRUE, !.title = "Old title",
                                     !.labelIds = <<AwaitingLabel>>,
                                     !.teamId = "team-id-0"]
          /\ comments = << [body |-> <<"question">> \o BOT_MARKER, author |-> "bot"],
                           [body |-> <<"reply-1">>, author |-> "human"] >>
          /\ tasks = << NewTask("Comment", "create", TRUE, <<"reply-1">>, "human",
                                None) >>

\* worker.ts:275-284  the same request arrives once more
Redeliver ==
    /\ Deliveries < MaxDeliveries
    /\ tasks' = Append(tasks,
          NewTask(tasks[1].type, tasks[1].action, tasks[1].signed, tasks[1].body,
                  tasks[1].origin, tasks[1].creator))
    /\ UNCHANGED <<env, kv, issue, comments, faults>>

RedeliveryNext ==
    \/ Redeliver
    \/ \E t \in DOMAIN tasks : Fetch(t)
    \/ \E t \in DOMAIN tasks : GetIssue(t)
    \/ \E t \in DOMAIN tasks : GetTeamKb(t)
    \/ \E t \in DOMAIN tasks : GetLabelKb(t)
    \/ \E t \in DOMAIN tasks : GetComments(t)
    \/ \E t \in DOMAIN tasks : LlmAttempt(t)
    \/ \E t \in DOMAIN tasks : CreateComment(t)
    \/ \E t \in DOMAIN tasks : AddAwaitingLabel(t)
    \/ \E t \in DOMAIN tasks : ValidateLabels(t)
    \/ \E t \in DOMAIN tasks : UpdateIssue(t)
    \/ \E t \in DOMAIN tasks : CreateSubtasks(t)
    \/ \E t \in DOMAIN tasks : Subscribe(t)
    \/ \E t \in DOMAIN tasks : AddReaction(t)

RedeliverySpec == RedeliveryInit /\ [][RedeliveryNext]_vars

\* ---------------------------------------------------------------- C31
\* The number of successful calls of the operation by request t.
DidCount(t, op) ==
    Len(SelectSeq(tasks[t].calls, LAMBDA e : e.op = op /\ e.ok))

\* Request d is the second delivery of the event of request 1; both handlers
\* have returned, and the model returned the same plan to both.
DeliveredTwice(d) ==
    /\ d # 1
    /\ tasks[d].origin = "human"
    /\ tasks[1].pc = "done" /\ tasks[d].pc = "done"
    /\ tasks[1].hasPlan /\ tasks[d].hasPlan
    /\ tasks[1].plan = tasks[d].plan

\* C31: delivering the same issue-created or comment-created event twice, with
\* the model returning the same plan, leaves the tracker as one delivery does:
\* no second clarification comment, no duplicate subtasks, no second reaction.
C31_EventIdempotence ==
    \A d \in Tasks :
        DeliveredTwice(d) =>
            /\ DidCount(1, "createComment") + DidCount(d, "createComment") <= 1
            /\ DidCount(1, "reaction") + DidCount(d, "reaction") <= 1
            /\ DidCount(1, "issueCreate") + DidCount(d, "issueCreate")
                  <= Len(OrEmpty(tasks[1].plan.subtasks))

\* ---------------------------------------------------------------- C32
\* C32: the completion branch of an issue-created event never puts the issue
\* into AwaitingInfo: the labelIds it sends to updateIssue never contain the
\* configured awaiting-info marker, so an issue carries the marker only after
\* the system has posted a clarification comment on it.
C32_CompletionNeverWritesMarker ==
    /\ \A t \in Tasks :
        (IsIssueEvent(tasks[t]) /\ InCompletionBranch(tasks[t])) =>
            \A k \in 1..Len(tasks[t].calls) :
                LET e == tasks[t].calls[k] IN
                (e.op = "updateIssue" /\ IsSome(e.input.labelIds)) =>
                    Awaiting \notin SeqToSet(Val(e.input.labelIds))
    /\ (Awaiting # "" /\ Awaiting \in SeqToSet(issue.labelIds)) =>
            \E k \in 1..Len(comments) : comments[k].author = "bot"

\* ---------------------------------- specification of a concurrent edit
\* A human's reply on an issue that awaits information is pending; while its
\* handler runs, another actor (a person in the tracker's UI, another
\* integration) puts a label on the issue.
EditInit ==
    /\ env = [AWAITING_INFO_LABEL_ID |-> AwaitingLabel]
    /\ kv = KvOk
    /\ issue = [NoIssue EXCEPT !.exists = TRUE, !.title = "Old title",
                               !.labelIds = <<LabelB, AwaitingLabel>>,
                               !.teamId = "team-id-0"]
    /\ comments = << [body |-> <<"question">> \o BOT_MARKER, author |-> "bot"],
                     [body |-> <<"reply-1">>, author |-> "human"] >>
    /\ tasks = << NewTask("Comment", "create", TRUE, <<"reply-1">>, "human", None) >>
    /\ faults = 0

\* The tracker applies another actor's label addition to the issue.
ActorAddsLabel ==
    /\ LabelA \notin SeqToSet(issue.labelIds)
    /\ issue' = [issue EXCEPT !.labelIds = Append(@, LabelA)]
    /\ UNCHANGED <<env, kv, comments, tasks, faults>>

EditNext ==
    \/ ActorAddsLabel
    \/ \E t \in DOMAIN tasks : Fetch(t)
    \/ \E t \in DOMAIN tasks : GetIssue(t)
    \/ \E t \in DOMAIN tasks : GetTeamKb(t)
    \/ \E t \in DOMAIN tasks : GetLabelKb(t)
    \/ \E t \in DOMAIN tasks : GetComments(t)
    \/ \E t \in DOMAIN tasks : LlmAttempt(t)
    \/ \E t \in DOMAIN tasks : CreateComment(t)
    \/ \E t \in DOMAIN tasks : ValidateLabels(t)
    \/ \E t \in DOMAIN tasks : UpdateIssue(t)
    \/ \E t \in DOMAIN tasks : CreateSubtasks(t)
    \/ \E t \in DOMAIN tasks : AddReaction(t)

EditSpec == EditInit /\ [][EditNext]_vars

\* ---------------------------------------------------------------- C33
\* C33: re-triage does not lose concurrent label changes: the label set the
\* re-triage update writes is computed from the issue's label set at the time
\* of the write, so every label that is on the issue when the update is made,
\* the marker apart, is still on the issue afterwards.
C33_RetriageKeepsConcurrentLabels ==
    [][ \A t \in Tasks :
          ( /\ IsCommentEvent(tasks[t])
            /\ tasks[t].pc = "update"
            /\ tasks'[t].pc \notin {"update", "aborted"} ) =>
              (SeqToSet(issue.labelIds) \ {Awaiting}) \subseteq SeqToSet(issue'.labelIds)
      ]_vars

\* ---------------------------------------------------------------- C34
\* C34: the processing of one event issues at most one issue update, at most
\* one comment creation, at most one subscription and at most one reaction,
\* and never both a comment creation and a reaction: the clarification branch
\* and the completion branch exclude each other.
C34_MutationBounds ==
    \A t \in Tasks :
        /\ \A op \in SingleMutationOps : CountOp(tasks[t].calls, op) <= 1
        /\ ~( /\ CountOp(tasks[t].calls, "createComment") > 0
              /\ CountOp(tasks[t].calls, "reaction") > 0 )

\* One event asked for clarification (its comment and its label update), the
\* other one completed the triage: every bound is met with equality.
C34_Witness ==
    \E t, u \in Tasks :
        /\ tasks[t].pc = "done"
        /\ CountOp(tasks[t].calls, "createComment") = 1
        /\ CountOp(tasks[t].calls, "updateIssue") = 1
        /\ tasks[u].pc = "done"
        /\ CountOp(tasks[u].calls, "updateIssue") = 1
        /\ CountOp(tasks[u].calls, "reaction") = 1

====
